---------------------------- MODULE Spec2Model ----------------------------
(***************************************************************************)
(* A model of package juiceconfig (src/juiceconfig/juiceconfig.go):        *)
(* Load and flattenConfig, the JuiceConfig methods with their sticky error *)
(* flag, and the package-level functions over the lazily loaded            *)
(* defaultConfig.                                                          *)
(*                                                                         *)
(* Strings are TLA+ strings, joined with \o as the code joins them with +. *)
(* A byte slice holding JSON is represented by the JSON value it denotes   *)
(* (the parser, github.com/antonholmquist/jason, is a library).            *)
(***************************************************************************)
EXTENDS Integers, Sequences, FiniteSets, TLC

VARIABLES
    env,            \* what the process reads: JUICE_CONFIG, files, variables, secrets
    heap,           \* the JuiceConfig objects allocated so far; a pointer is an index
    defaultConfig,  \* the package variable: a pointer into heap, or NilPtr
    call,           \* the last call made by the program
    ret,            \* what the last call returned
    lazyLoads,      \* the error of each Load made by checkDefaultConfigIsLoaded
    pc,             \* concurrent callers: where each one is in its call
    req,            \* concurrent callers: the call each one makes
    loc,            \* concurrent callers: the object each one's Load returned
    res             \* concurrent callers: what each one's call returned

vars == <<env, heap, defaultConfig, call, ret, lazyLoads, pc, req, loc, res>>

---------------------------------------------------------------------------
(* Bounds *)

\* The objects on the heap of the sequential program.
MaxStores == 1
\* The documents loaded side by side when Load alone is exercised.
MaxLoads == 2

---------------------------------------------------------------------------
(* Constants of the source *)

FILE_PREFIX == "file:::"
SECRETS_MANAGER_PREFIX == "secrets_manager:::"
ENVIRONMENT_PREFIX == "environment:::"

\* A nil pointer, a nil error.
NilPtr == 0
Nil == "<nil>"

---------------------------------------------------------------------------
(* JSON values, as jason.Value holds them *)

EmptyMap == [p \in {} |-> 0]

JStr(s)  == [k |-> "string", s |-> s,  n |-> 0, b |-> FALSE, m |-> EmptyMap]
\* A number whose literal is the base-10 integer n.
JInt(n)  == [k |-> "number", s |-> "", n |-> n, b |-> FALSE, m |-> EmptyMap]
\* A number whose literal is n followed by frac (1.5 is JNum(1, ".5")).
JNum(n, frac) == [k |-> "number", s |-> frac, n |-> n, b |-> FALSE, m |-> EmptyMap]
JBool(b) == [k |-> "bool",   s |-> "", n |-> 0, b |-> b,     m |-> EmptyMap]
JNull    == [k |-> "null",   s |-> "", n |-> 0, b |-> FALSE, m |-> EmptyMap]
\* An array; s names its contents, which no code of the package looks into.
JArr(s)  == [k |-> "array",  s |-> s,  n |-> 0, b |-> FALSE, m |-> EmptyMap]
JObj(m)  == [k |-> "object", s |-> "", n |-> 0, b |-> FALSE, m |-> m]
\* Bytes that are no JSON document; s is the parser's error text.
NotJSON(s) == [k |-> "invalid", s |-> s, n |-> 0, b |-> FALSE, m |-> EmptyMap]

\* value.Object(): nil error for an object, jason.ErrNotObject for the rest.
jason_IsObject(value) == value.k = "object"

\* value.String()
jason_String(value) ==
    IF value.k = "string" THEN [v |-> value.s, err |-> Nil]
    ELSE [v |-> "", err |-> "not a string"]

\* value.Int64(): Number() and then strconv.ParseInt of the literal.
\* (A literal beyond int64 also fails; TLC's integers cannot hold one.)
jason_Int64(value) ==
    IF value.k # "number" THEN [v |-> 0, err |-> "not a number"]
    ELSE IF value.s # "" THEN [v |-> 0, err |-> "strconv.ParseInt: invalid syntax"]
    ELSE [v |-> value.n, err |-> Nil]

\* value.Boolean()
jason_Boolean(value) ==
    IF value.k = "bool" THEN [v |-> value.b, err |-> Nil]
    ELSE [v |-> FALSE, err |-> "not a bool"]

\* jason.NewObjectFromBytes(data)
jason_NewObjectFromBytes(data) ==
    IF data.k = "object" THEN [obj |-> data.m, err |-> Nil]
    ELSE IF data.k = "invalid" THEN [obj |-> EmptyMap, err |-> data.s]
    ELSE [obj |-> EmptyMap, err |-> "not an object"]

---------------------------------------------------------------------------
(* Go's strings package *)

HasPrefix(s, prefix) ==
    /\ Len(s) >= Len(prefix)
    /\ SubSeq(s, 1, Len(prefix)) = prefix

\* strings.Index: the 0-based place of the first sep in s, or -1.
Index(s, sep) ==
    LET at == {i \in 0..(Len(s) - Len(sep)) : SubSeq(s, i + 1, i + Len(sep)) = sep}
    IN IF at = {} THEN -1 ELSE CHOOSE i \in at : \A j \in at : i <= j

\* s[from:] with a 0-based from.
Slice(s, from) == SubSeq(s, from + 1, Len(s))

---------------------------------------------------------------------------
(* The JuiceConfig object *)

NilConfig == [nil |-> TRUE, m |-> EmptyMap]

\* &JuiceConfig{}
NewJuiceConfig == [config |-> NilConfig, URL |-> "", hadError |-> FALSE, errMsg |-> ""]

setError(jc, msg) ==
    [jc |-> [jc EXCEPT !.hadError = TRUE, !.errMsg = msg], err |-> msg]


---------------------------------------------------------------------------
(* flattenConfig *)

RECURSIVE flattenConfig(_, _, _), flattenRange(_, _, _, _)

RECURSIVE flattenRange_KeyAsPrefix(_, _, _, _)

\* As the loop of flattenConfig, were it to recurse with key + "." in place
\* of path + ".".
flattenRange_KeyAsPrefix(newConfig, prefix, config, todo) ==
    IF todo = {} THEN {newConfig}
    ELSE UNION {
        LET path  == prefix \o key
            value == config[key]
            after == IF ~jason_IsObject(value)
                     THEN {(path :> value) @@ newConfig}
                     ELSE flattenConfig(newConfig, key \o ".", value.m)
        IN UNION {flattenRange_KeyAsPrefix(nc, prefix, config, todo \ {key})
                  : nc \in after}
        : key \in todo}

\* The loop of flattenConfig over the keys still to visit.  Go ranges over a
\* map in no fixed order, so the result is the set of maps that newConfig can
\* be left holding, one for each order of visit.
flattenRange(newConfig, prefix, config, todo) ==
    IF todo = {} THEN {newConfig}
    ELSE UNION {
        LET path  == prefix \o key
            value == config[key]
            after == IF ~jason_IsObject(value)
                     THEN {(path :> value) @@ newConfig}
                     ELSE flattenConfig(newConfig, path \o ".", value.m)
        IN UNION {flattenRange(nc, prefix, config, todo \ {key}) : nc \in after}
        : key \in todo}

\* flattenConfig(&newConfig, prefix, config); it always returns a nil error.
flattenConfig(newConfig, prefix, config) ==
    flattenRange(newConfig, prefix, config, DOMAIN config)

---------------------------------------------------------------------------
(* Load *)

\* return obj, obj.setError(msg)
LoadFailed(obj, msg) ==
    LET r == setError(obj, msg) IN [obj |-> r.jc, err |-> r.err]

\* Lines 100-118: parse the bytes, flatten, set obj.config.
LoadParse(obj, data) ==
    LET parsed == jason_NewObjectFromBytes(data) IN
    IF parsed.err # Nil
    THEN {LoadFailed(obj, "Error parsing config file [" \o parsed.err \o "]")}
    ELSE {[obj |-> [obj EXCEPT !.config = [nil |-> FALSE, m |-> newConfig],
                               !.hadError = FALSE],
           err |-> Nil]
          : newConfig \in flattenConfig(EmptyMap, "", parsed.obj)}

\* ioutil.ReadFile, svc.GetSecretValue and os.Getenv, read from e.
ReadFile(e, filename) ==
    IF filename \in DOMAIN e.files
    THEN [data |-> e.files[filename], err |-> Nil]
    ELSE [data |-> NotJSON(""), err |-> "open " \o filename \o ": no such file or directory"]

GetSecretValue(e, region, secretName) ==
    IF <<region, secretName>> \in DOMAIN e.secrets
    THEN [data |-> e.secrets[<<region, secretName>>], err |-> Nil]
    ELSE [data |-> NotJSON(""), err |-> "ResourceNotFoundException"]

\* The value of a variable that holds JSON; unset and empty are the same "".
Getenv(e, variableName) ==
    IF variableName \in DOMAIN e.vars
    THEN [data |-> e.vars[variableName], empty |-> FALSE]
    ELSE [data |-> NotJSON(""), empty |-> TRUE]

\* Load(url): the set of (obj, err) it can return.  obj is never nil.
Load(e, url) ==
    LET obj == [NewJuiceConfig EXCEPT !.URL = url] IN
    IF HasPrefix(url, FILE_PREFIX) THEN
        LET filename == Slice(url, Len(FILE_PREFIX))
            rd == ReadFile(e, filename)
        IN IF rd.err # Nil
           THEN {LoadFailed(obj, "Unable to open config file [" \o filename \o "]")}
           ELSE LoadParse(obj, rd.data)
    ELSE IF HasPrefix(url, SECRETS_MANAGER_PREFIX) THEN
        LET def == Slice(url, Len(SECRETS_MANAGER_PREFIX))
            pos == Index(def, ":::")
        IN IF pos < 0
           THEN {LoadFailed(obj, "Invalid URL [" \o url \o "]")}
           ELSE LET region     == SubSeq(def, 1, pos)
                    secretName == Slice(def, pos + 3)
                    result     == GetSecretValue(e, region, secretName)
                IN IF result.err # Nil
                   THEN {LoadFailed(obj, "Unable to access AWS Secrets Manager ["
                                         \o result.err \o "]")}
                   ELSE LoadParse(obj, result.data)
    ELSE IF HasPrefix(url, ENVIRONMENT_PREFIX) THEN
        LET variableName == Slice(url, Len(ENVIRONMENT_PREFIX))
            envvar == Getenv(e, variableName)
        IN IF envvar.empty
           THEN {LoadFailed(obj, "Environment variable not set [" \o variableName \o "]")}
           ELSE LoadParse(obj, envvar.data)
    ELSE {LoadFailed(obj, "Invalid URL for JuiceConfig [" \o url \o "]")}

---------------------------------------------------------------------------
(* The methods of JuiceConfig.  Each returns the object as the call leaves   *)
(* it and what the call returns: the value in s, i or b (the others hold     *)
(* Go's zero value), the error, and whether the call panicked.               *)

Ret(s, i, b, err) == [s |-> s, i |-> i, b |-> b, err |-> err, panic |-> FALSE]
Void == Ret("", 0, FALSE, Nil)
\* runtime error: invalid memory address or nil pointer dereference
Panic == [s |-> "", i |-> 0, b |-> FALSE, err |-> Nil, panic |-> TRUE]

AlreadyHadError == "Already had error"

JuiceConfig_WasError(jc) == [jc |-> jc, ret |-> Ret("", 0, jc.hadError, Nil)]

JuiceConfig_ErrorMessage(jc) == [jc |-> jc, ret |-> Ret(jc.errMsg, 0, FALSE, Nil)]

\* As ResetError, were it to clear the message with the flag.
JuiceConfig_ResetError_ClearsMsg(jc) ==
    [jc |-> [jc EXCEPT !.hadError = FALSE, !.errMsg = ""], ret |-> Void]

JuiceConfig_ResetError(jc) == [jc |-> [jc EXCEPT !.hadError = FALSE], ret |-> Void]

\* return zero, jc.setError(msg)
Failed(jc, msg) ==
    LET r == setError(jc, msg) IN [jc |-> r.jc, ret |-> Ret("", 0, FALSE, r.err)]

\* As GetString, without the check of hadError on entry.
JuiceConfig_GetString_NoSticky(jc, path, dflt) ==
    IF jc.config.nil THEN [jc |-> jc, ret |-> Panic]
    ELSE IF path \in DOMAIN jc.config.m THEN
        LET got == jason_String(jc.config.m[path]) IN
        IF got.err = Nil THEN [jc |-> jc, ret |-> Ret(got.v, 0, FALSE, Nil)]
        ELSE Failed(jc, "Value is not string [" \o path \o "]")
    ELSE IF Len(dflt) > 0 THEN [jc |-> jc, ret |-> Ret(dflt[1], 0, FALSE, Nil)]
    ELSE Failed(jc, "Value not found [" \o path \o "]")

JuiceConfig_GetString(jc, path, dflt) ==
    IF jc.hadError THEN [jc |-> jc, ret |-> Ret("", 0, FALSE, AlreadyHadError)]
    ELSE IF jc.config.nil THEN [jc |-> jc, ret |-> Panic]
    ELSE IF path \in DOMAIN jc.config.m THEN
        LET got == jason_String(jc.config.m[path]) IN
        IF got.err = Nil THEN [jc |-> jc, ret |-> Ret(got.v, 0, FALSE, Nil)]
        ELSE Failed(jc, "Value is not string [" \o path \o "]")
    ELSE IF Len(dflt) > 0 THEN [jc |-> jc, ret |-> Ret(dflt[1], 0, FALSE, Nil)]
    ELSE Failed(jc, "Value not found [" \o path \o "]")

\* As GetInt, returning whatever Int64 gave without a look at its error.
JuiceConfig_GetInt_NoTypeCheck(jc, path, dflt) ==
    IF jc.hadError THEN [jc |-> jc, ret |-> Ret("", 0, FALSE, AlreadyHadError)]
    ELSE IF jc.config.nil THEN [jc |-> jc, ret |-> Panic]
    ELSE IF path \in DOMAIN jc.config.m THEN
        [jc |-> jc, ret |-> Ret("", jason_Int64(jc.config.m[path]).v, FALSE, Nil)]
    ELSE IF Len(dflt) > 0 THEN [jc |-> jc, ret |-> Ret("", dflt[1], FALSE, Nil)]
    ELSE Failed(jc, "Value not found [" \o path \o "]")

\* As GetInt, recording "Already had error" as the message when the flag is set.
JuiceConfig_GetInt_StickyOverwrites(jc, path, dflt) ==
    IF jc.hadError THEN Failed(jc, AlreadyHadError)
    ELSE IF jc.config.nil THEN [jc |-> jc, ret |-> Panic]
    ELSE IF path \in DOMAIN jc.config.m THEN
        LET got == jason_Int64(jc.config.m[path]) IN
        IF got.err = Nil THEN [jc |-> jc, ret |-> Ret("", got.v, FALSE, Nil)]
        ELSE Failed(jc, "Value is not int64 [" \o path \o "]")
    ELSE IF Len(dflt) > 0 THEN [jc |-> jc, ret |-> Ret("", dflt[1], FALSE, Nil)]
    ELSE Failed(jc, "Value not found [" \o path \o "]")

JuiceConfig_GetInt(jc, path, dflt) ==
    IF jc.hadError THEN [jc |-> jc, ret |-> Ret("", 0, FALSE, AlreadyHadError)]
    ELSE IF jc.config.nil THEN [jc |-> jc, ret |-> Panic]
    ELSE IF path \in DOMAIN jc.config.m THEN
        LET got == jason_Int64(jc.config.m[path]) IN
        IF got.err = Nil THEN [jc |-> jc, ret |-> Ret("", got.v, FALSE, Nil)]
        ELSE Failed(jc, "Value is not int64 [" \o path \o "]")
    ELSE IF Len(dflt) > 0 THEN [jc |-> jc, ret |-> Ret("", dflt[1], FALSE, Nil)]
    ELSE Failed(jc, "Value not found [" \o path \o "]")

\* As GetBool, without the use of the default.
JuiceConfig_GetBool_NoDefault(jc, path, dflt) ==
    IF jc.hadError THEN [jc |-> jc, ret |-> Ret("", 0, FALSE, AlreadyHadError)]
    ELSE IF jc.config.nil THEN [jc |-> jc, ret |-> Panic]
    ELSE IF path \in DOMAIN jc.config.m THEN
        LET got == jason_Boolean(jc.config.m[path]) IN
        IF got.err = Nil THEN [jc |-> jc, ret |-> Ret("", 0, got.v, Nil)]
        ELSE Failed(jc, "Value is not bool [" \o path \o "]")
    ELSE Failed(jc, "Value not found [" \o path \o "]")

JuiceConfig_GetBool(jc, path, dflt) ==
    IF jc.hadError THEN [jc |-> jc, ret |-> Ret("", 0, FALSE, AlreadyHadError)]
    ELSE IF jc.config.nil THEN [jc |-> jc, ret |-> Panic]
    ELSE IF path \in DOMAIN jc.config.m THEN
        LET got == jason_Boolean(jc.config.m[path]) IN
        IF got.err = Nil THEN [jc |-> jc, ret |-> Ret("", 0, got.v, Nil)]
        ELSE Failed(jc, "Value is not bool [" \o path \o "]")
    ELSE IF Len(dflt) > 0 THEN [jc |-> jc, ret |-> Ret("", 0, dflt[1], Nil)]
    ELSE Failed(jc, "Value not found [" \o path \o "]")

---------------------------------------------------------------------------
(* The package variable and the package-level functions *)

\* checkDefaultConfigIsLoaded, from a heap hp and a defaultConfig dc: the set
\* of outcomes.  "defaultConfig, err = Load(envvar)" assigns whatever object
\* Load returned, also when err is not nil.
\* As checkDefaultConfigIsLoaded, were it to keep defaultConfig nil when Load
\* fails (the object Load returned is dropped).
checkDefaultConfigIsLoaded_KeepsNil(e, hp, dc) ==
    IF dc # NilPtr
    THEN {[heap |-> hp, defaultConfig |-> dc, err |-> Nil, loaded |-> FALSE]}
    ELSE {IF out.err = Nil
          THEN [heap |-> Append(hp, out.obj), defaultConfig |-> Len(hp) + 1,
                err |-> out.err, loaded |-> TRUE]
          ELSE [heap |-> hp, defaultConfig |-> NilPtr, err |-> out.err, loaded |-> TRUE]
          : out \in Load(e, e.JUICE_CONFIG)}

checkDefaultConfigIsLoaded(e, hp, dc) ==
    IF dc # NilPtr
    THEN {[heap |-> hp, defaultConfig |-> dc, err |-> Nil, loaded |-> FALSE]}
    ELSE {[heap |-> Append(hp, out.obj), defaultConfig |-> Len(hp) + 1,
           err |-> out.err, loaded |-> TRUE]
          : out \in Load(e, e.JUICE_CONFIG)}

---------------------------------------------------------------------------
(* The program's inputs *)

AppDoc ==
    JObj("db" :> JObj("host" :> JStr("db1") @@ "port" :> JInt(5432)
                      @@ "ssl" :> JBool(TRUE) @@ "rate" :> JNum(1, ".5")))

AppFile == "/etc/app.json"

\* The paths the program asks for: a string, an integer, a boolean, a number
\* that is no integer, and one that AppDoc does not hold.
Paths == {"db.host", "db.port", "db.ssl", "db.rate", "db.missing"}

DefaultString == "http://myDatabase.com"
DefaultInt == 3306
DefaultBool == TRUE

World(juiceConfig) ==
    [JUICE_CONFIG |-> juiceConfig,
     files   |-> (AppFile :> AppDoc),
     vars    |-> ("APP_CONFIG" :> AppDoc),
     secrets |-> (<<"us-east-1", "mysecret">> :> AppDoc)]

\* JUICE_CONFIG names the file, or is not set.
Worlds == {World(FILE_PREFIX \o AppFile), World("")}

\* The selectors the program hands to Load itself.
URLs == {FILE_PREFIX \o AppFile, "bogus:::x"}

Accessors == {"GetString", "GetInt", "GetBool"}

\* jc.<op>(path) or jc.<op>(path, default)
Invoke(op, jc, path, hasDflt) ==
    CASE op = "GetString" ->
            JuiceConfig_GetString(jc, path, IF hasDflt THEN <<DefaultString>> ELSE <<>>)
      [] op = "GetInt" ->
            JuiceConfig_GetInt(jc, path, IF hasDflt THEN <<DefaultInt>> ELSE <<>>)
      [] op = "GetBool" ->
            JuiceConfig_GetBool(jc, path, IF hasDflt THEN <<DefaultBool>> ELSE <<>>)
      [] op = "WasError" -> JuiceConfig_WasError(jc)
      [] op = "ErrorMessage" -> JuiceConfig_ErrorMessage(jc)
      [] op = "ResetError" -> JuiceConfig_ResetError(jc)

\* A call: the function, whether it is the package-level one, the object it
\* ran on, its arguments, and whether it made the lazy Load.
NoCall ==
    [op |-> "none", pkg |-> FALSE, h |-> NilPtr, path |-> "", hasDflt |-> FALSE,
     loaded |-> FALSE]

\* An unrecovered panic ends the process.
running == ~ret.panic

Callers == {"A", "B"}

InitCommon ==
    /\ heap = <<>>
    /\ defaultConfig = NilPtr
    /\ call = NoCall
    /\ ret = Void
    /\ lazyLoads = <<>>
    /\ pc = [c \in Callers |-> "idle"]
    /\ req = [c \in Callers |-> NoCall]
    /\ loc = [c \in Callers |-> NilPtr]
    /\ res = [c \in Callers |-> Void]

Init ==
    /\ env \in Worlds
    /\ InitCommon

---------------------------------------------------------------------------
(* The program's calls, one at a time *)

\* obj, err := juiceconfig.Load(url)
DoLoad(url) ==
    /\ running
    /\ \E out \in Load(env, url) :
          /\ heap' = Append(heap, out.obj)
          /\ ret' = Ret("", 0, FALSE, out.err)
    /\ call' = [op |-> "Load", pkg |-> FALSE, h |-> Len(heap) + 1,
                path |-> "", hasDflt |-> FALSE, loaded |-> FALSE]
    /\ UNCHANGED <<env, defaultConfig, lazyLoads, pc, req, loc, res>>

\* A method called on an object that Load returned to the program.
MethodCall(op, h, path, hasDflt) ==
    /\ running
    /\ h \in 1..Len(heap)
    /\ h # defaultConfig
    /\ LET r == Invoke(op, heap[h], path, hasDflt) IN
          /\ heap' = [heap EXCEPT ![h] = r.jc]
          /\ ret' = r.ret
    /\ call' = [op |-> op, pkg |-> FALSE, h |-> h, path |-> path,
                hasDflt |-> hasDflt, loaded |-> FALSE]
    /\ UNCHANGED <<env, defaultConfig, lazyLoads, pc, req, loc, res>>

Call_GetString(h, path, hasDflt) == MethodCall("GetString", h, path, hasDflt)
Call_GetInt(h, path, hasDflt) == MethodCall("GetInt", h, path, hasDflt)
Call_GetBool(h, path, hasDflt) == MethodCall("GetBool", h, path, hasDflt)
Call_WasError(h) == MethodCall("WasError", h, "", FALSE)
Call_ErrorMessage(h) == MethodCall("ErrorMessage", h, "", FALSE)
Call_ResetError(h) == MethodCall("ResetError", h, "", FALSE)

\* The package-level GetString, GetInt and GetBool:
\*     checkDefaultConfigIsLoaded()
\*     return defaultConfig.<op>(path, dflt...)
PkgAccessor(op, path, hasDflt) ==
    /\ running
    /\ \E g \in checkDefaultConfigIsLoaded(env, heap, defaultConfig) :
          /\ Len(g.heap) <= MaxStores
          /\ IF g.defaultConfig = NilPtr
             THEN /\ heap' = g.heap
                  /\ ret' = Panic
             ELSE LET r == Invoke(op, g.heap[g.defaultConfig], path, hasDflt) IN
                  /\ heap' = [g.heap EXCEPT ![g.defaultConfig] = r.jc]
                  /\ ret' = r.ret
          /\ defaultConfig' = g.defaultConfig
          /\ lazyLoads' = IF g.loaded THEN Append(lazyLoads, g.err) ELSE lazyLoads
          /\ call' = [op |-> op, pkg |-> TRUE, h |-> g.defaultConfig,
                      path |-> path, hasDflt |-> hasDflt, loaded |-> g.loaded]
    /\ UNCHANGED <<env, pc, req, loc, res>>

GetString(path, hasDflt) == PkgAccessor("GetString", path, hasDflt)
GetInt(path, hasDflt) == PkgAccessor("GetInt", path, hasDflt)
GetBool(path, hasDflt) == PkgAccessor("GetBool", path, hasDflt)

\* The package-level WasError, ErrorMessage and ResetError:
\*     return defaultConfig.<op>()
\* with no call of checkDefaultConfigIsLoaded: on a nil defaultConfig the
\* method reads a field through a nil pointer.
PkgPlain(op) ==
    /\ running
    /\ IF defaultConfig = NilPtr
       THEN /\ ret' = Panic
            /\ heap' = heap
       ELSE LET r == Invoke(op, heap[defaultConfig], "", FALSE) IN
            /\ heap' = [heap EXCEPT ![defaultConfig] = r.jc]
            /\ ret' = r.ret
    /\ call' = [op |-> op, pkg |-> TRUE, h |-> defaultConfig, path |-> "",
                hasDflt |-> FALSE, loaded |-> FALSE]
    /\ UNCHANGED <<env, defaultConfig, lazyLoads, pc, req, loc, res>>

WasError == PkgPlain("WasError")
ErrorMessage == PkgPlain("ErrorMessage")
ResetError == PkgPlain("ResetError")

Next ==
    \/ Len(heap) < MaxStores /\ \E url \in URLs : DoLoad(url)
    \/ \E h \in 1..MaxStores, path \in Paths, hasDflt \in BOOLEAN :
          Call_GetString(h, path, hasDflt)
    \/ \E h \in 1..MaxStores, path \in Paths, hasDflt \in BOOLEAN :
          Call_GetInt(h, path, hasDflt)
    \/ \E h \in 1..MaxStores, path \in Paths, hasDflt \in BOOLEAN :
          Call_GetBool(h, path, hasDflt)
    \/ \E h \in 1..MaxStores : Call_WasError(h)
    \/ \E h \in 1..MaxStores : Call_ErrorMessage(h)
    \/ \E h \in 1..MaxStores : Call_ResetError(h)
    \/ \E path \in Paths, hasDflt \in BOOLEAN : GetString(path, hasDflt)
    \/ \E path \in Paths, hasDflt \in BOOLEAN : GetInt(path, hasDflt)
    \/ \E path \in Paths, hasDflt \in BOOLEAN : GetBool(path, hasDflt)
    \/ WasError
    \/ ErrorMessage
    \/ ResetError

Spec == Init /\ [][Next]_vars

---------------------------------------------------------------------------
(* Load alone, over documents that spell paths in different ways *)

Street == JStr("Victoria Avenue")

\* README, "JSON Format": four spellings of employee.address.street.
DocFiles ==
    "nested.json"  :> JObj("employee" :> JObj("address" :> JObj("street" :> Street)))
 @@ "partly1.json" :> JObj("employee.address" :> JObj("street" :> Street))
 @@ "partly2.json" :> JObj("employee" :> JObj("address.street" :> Street))
 @@ "flat.json"    :> JObj("employee.address.street" :> Street)
    \* one leaf, two leaves, and the spellings between
 @@ "ab1.json"     :> JObj("a" :> JObj("b" :> JInt(1)))
 @@ "ab2.json"     :> JObj("a.b" :> JInt(1))
 @@ "abc1.json"    :> JObj("a" :> JObj("b" :> JInt(1) @@ "c" :> JBool(TRUE)))
 @@ "abc2.json"    :> JObj("a.b" :> JInt(1) @@ "a" :> JObj("c" :> JBool(TRUE)))
 @@ "abc3.json"    :> JObj("a.b" :> JInt(1) @@ "a.c" :> JBool(TRUE))
 @@ "abc4.json"    :> JObj("a.c" :> JInt(1) @@ "a" :> JObj("b" :> JBool(TRUE)))
    \* another value at the same path
 @@ "ab3.json"     :> JObj("a.b" :> JInt(2))
    \* two keys that flatten to the same path
 @@ "clash.json"   :> JObj("a.b" :> JInt(1) @@ "a" :> JObj("b" :> JInt(2)))
    \* leaves that are neither string, integer nor boolean
 @@ "misc1.json"   :> JObj("a" :> JObj("b" :> JNull @@ "c" :> JArr("[1,2]")))
 @@ "misc2.json"   :> JObj("a.b" :> JNull @@ "a.c" :> JArr("[1,2]"))
    \* no leaf at all
 @@ "empty1.json"  :> JObj(EmptyMap)
 @@ "empty2.json"  :> JObj("a" :> JObj(EmptyMap))
    \* not a JSON object
 @@ "broken.json"  :> NotJSON("unexpected end of JSON input")
 @@ "array.json"   :> JArr("[1,2]")

LoadWorld ==
    [JUICE_CONFIG |-> "",
     files   |-> DocFiles,
     vars    |-> ("APP_CONFIG" :> AppDoc),
     secrets |-> (<<"us-east-1", "mysecret">> :> AppDoc)]

LoadURLs ==
    {FILE_PREFIX \o f : f \in DOMAIN DocFiles}
    \cup {FILE_PREFIX \o "missing.json",
          SECRETS_MANAGER_PREFIX \o "us-east-1",
          SECRETS_MANAGER_PREFIX \o "us-east-1:::mysecret",
          SECRETS_MANAGER_PREFIX \o "us-east-1:::nosuch",
          ENVIRONMENT_PREFIX \o "APP_CONFIG",
          ENVIRONMENT_PREFIX \o "UNSET",
          "bogus:::x"}

InitLoad ==
    /\ env = LoadWorld
    /\ InitCommon

NextLoad == Len(heap) < MaxLoads /\ \E url \in LoadURLs : DoLoad(url)

SpecLoad == InitLoad /\ [][NextLoad]_vars

---------------------------------------------------------------------------
(* Two callers of the package-level accessors at once.  Nothing guards      *)
(* defaultConfig: a caller's check, its Load, its assignment and its method *)
(* call are separate steps, and the other caller's steps come in between.   *)

ConcPaths == {"db.host", "db.missing"}

Requests ==
    {[op |-> op, pkg |-> TRUE, h |-> NilPtr, path |-> path, hasDflt |-> hasDflt,
      loaded |-> FALSE]
     : op \in Accessors, path \in ConcPaths, hasDflt \in BOOLEAN}

InitConc ==
    /\ env \in Worlds
    /\ heap = <<>>
    /\ defaultConfig = NilPtr
    /\ call = NoCall
    /\ ret = Void
    /\ lazyLoads = <<>>
    /\ pc = [c \in Callers |-> "check"]
    /\ req \in [Callers -> Requests]
    /\ loc = [c \in Callers |-> NilPtr]
    /\ res = [c \in Callers |-> Void]

\* if defaultConfig != nil { return nil }
Caller_Check(c) ==
    /\ pc[c] = "check"
    /\ pc' = [pc EXCEPT ![c] = IF defaultConfig # NilPtr THEN "call" ELSE "load"]
    /\ UNCHANGED <<env, heap, defaultConfig, call, ret, lazyLoads, req, loc, res>>

\* Load(envvar), up to its return
Caller_Load(c) ==
    /\ pc[c] = "load"
    /\ \E out \in Load(env, env.JUICE_CONFIG) :
          /\ heap' = Append(heap, out.obj)
          /\ lazyLoads' = Append(lazyLoads, out.err)
    /\ loc' = [loc EXCEPT ![c] = Len(heap) + 1]
    /\ pc' = [pc EXCEPT ![c] = "assign"]
    /\ UNCHANGED <<env, defaultConfig, call, ret, req, res>>

\* defaultConfig, err = <what Load returned>
Caller_Assign(c) ==
    /\ pc[c] = "assign"
    /\ defaultConfig' = loc[c]
    /\ pc' = [pc EXCEPT ![c] = "call"]
    /\ UNCHANGED <<env, heap, call, ret, lazyLoads, req, loc, res>>

\* return defaultConfig.<op>(path, dflt...)
Caller_Call(c) ==
    /\ pc[c] = "call"
    /\ LET r == Invoke(req[c].op, heap[defaultConfig], req[c].path, req[c].hasDflt) IN
          /\ heap' = [heap EXCEPT ![defaultConfig] = r.jc]
          /\ res' = [res EXCEPT ![c] = r.ret]
    /\ pc' = [pc EXCEPT ![c] = "done"]
    /\ UNCHANGED <<env, defaultConfig, call, ret, lazyLoads, req, loc>>

NextConc ==
    \/ \E c \in Callers : Caller_Check(c)
    \/ \E c \in Callers : Caller_Load(c)
    \/ \E c \in Callers : Caller_Assign(c)
    \/ \E c \in Callers : Caller_Call(c)

SpecConc == InitConc /\ [][NextConc]_vars

---------------------------------------------------------------------------
(* Properties of the sequential program (Spec) *)

IsAccessor(op) == op \in Accessors

\* The word for the accessor's type in its messages.
TypeWord(op) ==
    CASE op = "GetString" -> "string"
      [] op = "GetInt" -> "int64"
      [] op = "GetBool" -> "bool"

\* The JSON value v is of the accessor's type: a string, a number written as
\* an integer, a boolean.
TypeMatches(op, v) ==
    CASE op = "GetString" -> v.k = "string"
      [] op = "GetInt" -> v.k = "number" /\ v.s = ""
      [] op = "GetBool" -> v.k = "bool"

\* r is the return of accessor op with the JSON value v and no error.
ReturnsValue(op, r, v) ==
    /\ ~r.panic
    /\ r.err = Nil
    /\ CASE op = "GetString" -> r.s = v.s
         [] op = "GetInt" -> r.i = v.n
         [] op = "GetBool" -> r.b = v.b

\* r is the return of accessor op with its default and no error.
ReturnsDefault(op, r) ==
    /\ ~r.panic
    /\ r.err = Nil
    /\ CASE op = "GetString" -> r.s = DefaultString
         [] op = "GetInt" -> r.i = DefaultInt
         [] op = "GetBool" -> r.b = DefaultBool

\* The object the last call was made on, after the call.
Target == heap[call.h]

\* This step is a call of a typed accessor on an object h that existed before.
AccessorStepOn(h) ==
    /\ h \in 1..Len(heap)
    /\ IsAccessor(call'.op)
    /\ call'.h = h

\* This step is a ResetError on h.
ResetStepOn(h) ==
    /\ call'.op = "ResetError"
    /\ call'.h = h

\* C1. Sticky error: a typed accessor that fails leaves the flag set; the flag
\* stays set through every call but ResetError; while it is set every typed
\* accessor, whatever its path, type or default, fails with "Already had
\* error"; and when ResetError has cleared it, a lookup of a present path of
\* the matching type returns the stored value.
C1_StickyError ==
    [][\A h \in 1..Len(heap') :
          /\ (IsAccessor(call'.op) /\ call'.h = h /\ ret'.err # Nil)
                => heap'[h].hadError
          /\ (h <= Len(heap) /\ heap[h].hadError /\ ~ResetStepOn(h))
                => heap'[h].hadError
          /\ (AccessorStepOn(h) /\ heap[h].hadError)
                => (~ret'.panic /\ ret'.err = AlreadyHadError)
          /\ (AccessorStepOn(h) /\ call.op = "ResetError" /\ call.h = h
                /\ call'.path \in DOMAIN heap[h].config.m
                /\ TypeMatches(call'.op, heap[h].config.m[call'.path]))
                => ReturnsValue(call'.op, ret', heap[h].config.m[call'.path])
      ]_vars

\* A valid lookup has failed because an earlier call failed.
C1_Witness ==
    /\ IsAccessor(call.op)
    /\ ret.err = AlreadyHadError
    /\ ~Target.config.nil
    /\ call.path \in DOMAIN Target.config.m
    /\ TypeMatches(call.op, Target.config.m[call.path])

\* The object h as a call of this step found it: as it was, or, for the
\* package-level call that has just loaded it, as Load returned it.
LoadedClear(h) ==
    \/ /\ h \in 1..Len(heap)
       /\ ~heap[h].config.nil
       /\ ~heap[h].hadError
    \/ /\ h = Len(heap) + 1
       /\ call'.loaded
       /\ lazyLoads'[Len(lazyLoads')] = Nil

\* C2. On a successfully loaded store whose flag is clear, an accessor called
\* on a present path p returns the stored value with no error when the value is
\* of the accessor's type, and otherwise fails with "Value is not <type> [p]",
\* sets the flag and records that message (<type> is string, int64 or bool).
C2_TypedLookup ==
    [][\A h \in 1..Len(heap') :
          (/\ IsAccessor(call'.op)
           /\ call'.h = h
           /\ LoadedClear(h)
           /\ call'.path \in DOMAIN heap'[h].config.m)
          => LET v   == heap'[h].config.m[call'.path]
                 msg == "Value is not " \o TypeWord(call'.op) \o " ["
                        \o call'.path \o "]"
             IN IF TypeMatches(call'.op, v)
                THEN /\ ReturnsValue(call'.op, ret', v)
                     /\ ~heap'[h].hadError
                ELSE /\ ~ret'.panic
                     /\ ret'.err = msg
                     /\ heap'[h].hadError
                     /\ heap'[h].errMsg = msg
      ]_vars

\* GetInt has refused a number that is not an integer.
C2_Witness ==
    /\ call.op = "GetInt"
    /\ call.path = "db.rate"
    /\ ret.err = "Value is not int64 [db.rate]"
    /\ Target.hadError
    /\ Target.errMsg = "Value is not int64 [db.rate]"

\* C3, as claimed: on any store with a flat map, an accessor called with a
\* default on an absent path returns the default with no error.
C3_DefaultOnAnyStore ==
    (/\ IsAccessor(call.op)
     /\ call.hasDflt
     /\ call.h # NilPtr
     /\ ~Target.config.nil
     /\ call.path \notin DOMAIN Target.config.m)
    => ReturnsDefault(call.op, ret)

\* C3, amended. On a successfully loaded store whose flag is clear, an accessor
\* called with a default on an absent path returns the default with no error
\* and leaves the flag and the message as they were.
C3_DefaultWhenClear ==
    [][\A h \in 1..Len(heap') :
          (/\ IsAccessor(call'.op)
           /\ call'.h = h
           /\ call'.hasDflt
           /\ LoadedClear(h)
           /\ call'.path \notin DOMAIN heap'[h].config.m)
          => /\ ReturnsDefault(call'.op, ret')
             /\ ~heap'[h].hadError
             /\ h <= Len(heap) => heap'[h] = heap[h]
             /\ h > Len(heap) => heap'[h].errMsg = ""
      ]_vars

\* A default has been returned for an absent path.
C3_Witness ==
    /\ call.op = "GetBool"
    /\ call.hasDflt
    /\ call.path = "db.missing"
    /\ ReturnsDefault(call.op, ret)
    /\ ~Target.hadError

\* C4, as claimed: after ResetError, WasError returns false and ErrorMessage
\* returns the empty string.
C4_ResetClearsBoth ==
    (call.op = "ResetError" /\ ~ret.panic)
    => /\ JuiceConfig_WasError(Target).ret.b = FALSE
       /\ JuiceConfig_ErrorMessage(Target).ret.s = ""

\* C4, amended. ResetError clears the flag only: after it WasError returns
\* false, ErrorMessage returns what it returned before the call, and the flat
\* map (and the URL) are as before.
C4_ResetClearsFlagOnly ==
    [][\A h \in 1..Len(heap) :
          ResetStepOn(h)
          => /\ ~ret'.panic
             /\ JuiceConfig_WasError(heap'[h]).ret.b = FALSE
             /\ JuiceConfig_ErrorMessage(heap'[h]).ret.s
                   = JuiceConfig_ErrorMessage(heap[h]).ret.s
             /\ heap'[h].config = heap[h].config
             /\ heap'[h].URL = heap[h].URL
      ]_vars

\* ResetError has cleared the flag of a store that keeps a message.
C4_Witness ==
    /\ call.op = "ResetError"
    /\ ~ret.panic
    /\ ~Target.hadError
    /\ Target.errMsg = "Value not found [db.missing]"

\* The two messages an access of path can record.
AccessMessages(op, path) ==
    {"Value not found [" \o path \o "]",
     "Value is not " \o TypeWord(op) \o " [" \o path \o "]"}

\* C5. A typed accessor called while the flag is set changes neither the flag,
\* the message nor the map.  The access that sets the flag records its own
\* message, and while the flag stays set the message stays: until ResetError,
\* ErrorMessage returns the message of the first failing access.
C5_FirstMessageKept ==
    [][\A h \in 1..Len(heap) :
          /\ (AccessorStepOn(h) /\ heap[h].hadError) => heap'[h] = heap[h]
          /\ (AccessorStepOn(h) /\ ~heap[h].hadError /\ ret'.err # Nil)
                => /\ ret'.err \in AccessMessages(call'.op, call'.path)
                   /\ heap'[h].hadError
                   /\ heap'[h].errMsg = ret'.err
          /\ (heap[h].hadError /\ heap'[h].hadError)
                => JuiceConfig_ErrorMessage(heap'[h]).ret.s
                      = JuiceConfig_ErrorMessage(heap[h]).ret.s
          /\ (call'.op = "ErrorMessage" /\ call'.h = h)
                => ret'.s = heap[h].errMsg
      ]_vars

\* A second access has failed, on another path, and the first message stands.
C5_Witness ==
    /\ IsAccessor(call.op)
    /\ ret.err = AlreadyHadError
    /\ call.path # "db.missing"
    /\ Target.hadError
    /\ Target.errMsg = "Value not found [db.missing]"

\* A Load made by checkDefaultConfigIsLoaded has failed.
LazyLoadFailed == \E i \in 1..Len(lazyLoads) : lazyLoads[i] # Nil

\* C7, as claimed: when the lazy load has failed, the process-wide store
\* remains unset.
C7_FailedLoadLeavesUnset == LazyLoadFailed => defaultConfig = NilPtr

\* C7, amended. When the lazy load fails, defaultConfig is set to the object
\* that the failed Load returned (no value map, the message of the load
\* error), and no later call attempts the load again: the failure is cached.
C7_FailedLoadIsCached ==
    /\ [](LazyLoadFailed
            => /\ defaultConfig # NilPtr
               /\ heap[defaultConfig].config.nil
               /\ heap[defaultConfig].errMsg = lazyLoads[1]
               /\ Len(lazyLoads) = 1)
    /\ [][LazyLoadFailed
            => /\ lazyLoads' = lazyLoads
               /\ defaultConfig' = defaultConfig
               /\ ~call'.loaded
       ]_vars

\* A package-level accessor called after the failed load, making no load of
\* its own, has found the object of that load.
C7_Witness ==
    /\ LazyLoadFailed
    /\ call.pkg
    /\ IsAccessor(call.op)
    /\ ~call.loaded
    /\ ret.err = AlreadyHadError
    /\ Target.errMsg = "Invalid URL for JuiceConfig []"

\* C8, as claimed: whichever of the six package-level functions is called, the
\* default store has been built when it delegates, so the call runs on a
\* JuiceConfig object.
C8_EveryFunctionLoads ==
    call.pkg => (call.h # NilPtr /\ defaultConfig # NilPtr /\ ~ret.panic)

\* C10, as claimed: a typed accessor that gets past the check of hadError finds
\* the flat map set by a completed load.
C10_MapSetWhenRead ==
    (IsAccessor(call.op) /\ ret.err # AlreadyHadError)
    => (call.h # NilPtr /\ ~Target.config.nil /\ ~ret.panic)

---------------------------------------------------------------------------
(* Properties of Load alone (SpecLoad) *)

RECURSIVE Routes(_), JoinDots(_), LeafAt(_, _)

\* The leaves of a JSON object, each as the keys that lead to it.
Routes(obj) ==
    UNION {IF obj[key].k = "object"
           THEN {<<key>> \o r : r \in Routes(obj[key].m)}
           ELSE {<<key>>}
           : key \in DOMAIN obj}

\* The dotted path that a leaf's keys spell.
JoinDots(route) ==
    IF Len(route) = 1 THEN route[1]
    ELSE route[1] \o "." \o JoinDots(Tail(route))

LeafAt(obj, route) ==
    IF Len(route) = 1 THEN obj[route[1]]
    ELSE LeafAt(obj[route[1]].m, Tail(route))

\* The leaf paths an object spells, each with its value.
Spelling(obj) == {<<JoinDots(r), LeafAt(obj, r)>> : r \in Routes(obj)}

\* No two leaves of the object spell the same path.
NonColliding(obj) ==
    \A r1, r2 \in Routes(obj) : JoinDots(r1) = JoinDots(r2) => r1 = r2

\* The objects loaded from a file holding a JSON object, each with its file.
LoadedFrom ==
    {<<h, f>> \in (1..Len(heap)) \X (DOMAIN env.files) :
        /\ heap[h].URL = FILE_PREFIX \o f
        /\ env.files[f].k = "object"}

\* C6. Two JSON objects without colliding keys that spell the same leaf paths
\* with the same values load to the same flat map, however each splits its
\* paths between nesting and dotted keys, and in whatever order the keys of
\* each are visited (two loads of one document included).
C6_SameSpellingSameMap ==
    \A x, y \in LoadedFrom :
        LET dx == env.files[x[2]].m
            dy == env.files[y[2]].m
        IN (NonColliding(dx) /\ NonColliding(dy) /\ Spelling(dx) = Spelling(dy))
           => /\ ~heap[x[1]].config.nil
              /\ ~heap[y[1]].config.nil
              /\ heap[x[1]].config.m = heap[y[1]].config.m

\* The fully nested and the fully flat document of the README are both
\* loaded, to the one map of employee.address.street.
C6_Witness ==
    /\ Len(heap) = 2
    /\ heap[1].URL = FILE_PREFIX \o "nested.json"
    /\ heap[2].URL = FILE_PREFIX \o "flat.json"
    /\ heap[1].config.m = ("employee.address.street" :> Street)
    /\ heap[2].config.m = heap[1].config.m

---------------------------------------------------------------------------
(* Properties of the concurrent callers (SpecConc) *)

\* One package-level accessor call, run alone from the heap and defaultConfig
\* of g: the outcomes.
SeqCall(g, rq) ==
    {LET r == Invoke(rq.op, x.heap[x.defaultConfig], rq.path, rq.hasDflt)
     IN [heap |-> [x.heap EXCEPT ![x.defaultConfig] = r.jc],
         defaultConfig |-> x.defaultConfig, ret |-> r.ret]
     : x \in checkDefaultConfigIsLoaded(env, g.heap, g.defaultConfig)}

\* What the callers and a last WasError and ErrorMessage see.
Observed(retA, retB, jc) ==
    [A |-> retA, B |-> retB,
     wasError |-> JuiceConfig_WasError(jc).ret.b,
     errorMessage |-> JuiceConfig_ErrorMessage(jc).ret.s]

\* The observations of the two calls run one after the other, either first.
SeqOutcomes ==
    LET g0 == [heap |-> <<>>, defaultConfig |-> NilPtr] IN
    {Observed(g1.ret, g2.ret, g2.heap[g2.defaultConfig])
        : <<g1, g2>> \in UNION {{<<a, b>> : b \in SeqCall(a, req["B"])}
                                : a \in SeqCall(g0, req["A"])}}
    \cup
    {Observed(g2.ret, g1.ret, g2.heap[g2.defaultConfig])
        : <<g1, g2>> \in UNION {{<<b, a>> : a \in SeqCall(b, req["A"])}
                                : b \in SeqCall(g0, req["B"])}}

AllDone == \A c \in Callers : pc[c] = "done"

\* C9, as claimed: when both callers have returned, what they got and the
\* error state that WasError and ErrorMessage then report are those of some
\* sequential execution of the same two calls.
C9_RaceIsBenign ==
    AllDone => Observed(res["A"], res["B"], heap[defaultConfig]) \in SeqOutcomes

=============================================================================
